---- MODULE Spec2Model ----
(***************************************************************************)
(* A model of the FELICS lossless image codec (visanalexandru/felics):     *)
(* the Rice and phased-in coders, the YCoCg colour transform, the Rice     *)
(* parameter estimator and the raster-scan channel codec, on bit streams   *)
(* written most-significant bit first.                                     *)
(***************************************************************************)
EXTENDS Integers, Sequences, FiniteSets, TLC

VARIABLES
    stream,     \* coder harness: the bits written so far (BitWriter<_, BigEndian>)
    written,    \* coder harness: one record per encode call, in order
    rpos,       \* coder harness: number of bits the reader has consumed
    decoded,    \* coder harness: one record per decode call, in order
    built,      \* coder harness: the PhaseInCoder::new call made: its argument, its outcome
    px,         \* colour harness: the (r, g, b) input
    ycc,        \* colour harness: rgb_to_ycocg(px), or <<>> before the call
    back,       \* colour harness: ycocg_to_rgb(ycc), or <<>> before the call
    image,      \* codec: the image given to compress: kind, width, height, raw samples
    pc,         \* codec: position of the compress / decompress calls
    sink,       \* codec: the bits of the file: header bytes, then the bit stream
    tampered,   \* codec: whether the file was altered between compress and decompress
    cres,       \* codec: how compress ended: "none", "ok" or "panic"
    echans,     \* encoder: the channels to code (one for Luma, Y Co Cg for Rgb)
    ec,         \* encoder: index of the channel being coded
    ei,         \* encoder: loop index i of compress_channel
    eest,       \* encoder: the KEstimator of the channel
    etrace,     \* encoder: per coded pixel, what the loop body computed
    dhdr,       \* decoder: the header read_header returned
    dpos,       \* decoder: bits consumed from sink
    dchans,     \* decoder: the channels decompress_channel returned so far
    dbuf,       \* decoder: buf of the running decompress_channel
    di,         \* decoder: loop index i of decompress_channel
    dest,       \* decoder: the KEstimator of the channel
    dtrace,     \* decoder: per decoded pixel, what the loop body computed
    dres,       \* decoder: how decompress_image ended, with the image or the error
    kest,       \* estimator harness: the KEstimator under test
    klog,       \* estimator harness: the (context, encoded) of the updates, in order
    kprev,      \* estimator harness: the estimator before the last call
    kres,       \* estimator harness: the last call and how it ended
    nbin,       \* predictor harness: the pixel index and the image dimensions
    nbout       \* predictor harness: what nearest_neighbours returned

coderVars == <<stream, written, rpos, decoded, built>>
colorVars == <<px, ycc, back>>
encVars == <<cres, echans, ec, ei, eest, etrace>>
decVars == <<dhdr, dpos, dchans, dbuf, di, dest, dtrace, dres>>
codecVars == <<image, pc, sink, tampered, encVars, decVars>>
estVars == <<kest, klog, kprev, kres>>
nbVars == <<nbin, nbout>>
vars == <<coderVars, colorVars, codecVars, estVars, nbVars>>

(***************************************************************************)
(* Bounds of the model.                                                    *)
(***************************************************************************)
MaxCodes == 2       \* codes written back to back in a coder harness
MaxRiceN == 4       \* Rice harness: numbers 0..MaxRiceN
MaxPhaseN == 9      \* phased-in harness: range sizes 1..MaxPhaseN
MaxRGB == 3         \* colour harness: components 0..MaxRGB besides the extremes
MaxDim == 3         \* codec: image width and height are 0..MaxDim
MaxPixels == 4      \* codec: images of at most MaxPixels pixels

(***************************************************************************)
(* Program constants.                                                      *)
(***************************************************************************)
U8_MAX == 255
U16_MAX == 65535
MAX_K == 31         \* RiceCoder::new panics for k > 31
COUNT_SCALING == 1024

(***************************************************************************)
(* Machine integers.                                                       *)
(***************************************************************************)
RECURSIVE Pow2(_)
Pow2(e) == IF e = 0 THEN 1 ELSE 2 * Pow2(e - 1)

\* Every integer of the model stays within 32 signed bits. A u32 of the
\* program that may reach 2^31 is kept as its top bit `hi` and its 31 low
\* bits, and the sums below are arranged so that no intermediate result
\* leaves the signed range.
I32_MAX == (Pow2(30) - 1) + Pow2(30)
I32_MIN == (-Pow2(30)) - Pow2(30)
U32_BITS == 32

\* number >> k and number & (2^k - 1) on a u32 below 2^31.
Shr(number, k) == IF k >= 31 THEN 0 ELSE number \div Pow2(k)
LowBits(number, k) == IF k >= 31 THEN number ELSE number % Pow2(k)

\* (a + b) % n on u32 for a < n and b <= n < 2^31 (the sum fits in 32 bits).
U32AddMod(a, b, n) == IF a >= n - b THEN a - (n - b) ELSE a + b

\* u32::checked_ilog2: floor(log2 n) for n >= 1.
RECURSIVE ilog2(_)
ilog2(n) == IF n <= 1 THEN 0 ELSE 1 + ilog2(n \div 2)

\* Rust's `/` on i32 by a positive b: division truncating toward zero (for a
\* negative a the quotient rounded up, with no negation of i32::MIN).
RustDiv(a, b) == IF a >= 0 THEN a \div b ELSE (a + (b - 1)) \div b

\* Division by two rounding toward minus infinity (an arithmetic shift).
FloorHalf(a) == a \div 2

(***************************************************************************)
(* bitstream_io, BigEndian: a stream is a sequence of bits, each field is  *)
(* written most significant bit first.                                     *)
(***************************************************************************)
\* A write that emits the field least significant bit first.
WriteBits_LsbFirst(bits, value) ==
    [i \in 1..bits |-> (value \div Pow2(i - 1)) % 2]

\* BitWrite::write(bits, value): the low `bits` bits of value, MSB first.
WriteBits(bits, value) ==
    [i \in 1..bits |-> (value \div Pow2(bits - i)) % 2]

\* BitWrite::write_bit.
WriteBit(b) == <<IF b THEN 1 ELSE 0>>

\* BitWrite::write_unary0(value): `value` one bits, then a zero bit.
WriteUnary0(value) ==
    [i \in 1..(value + 1) |-> IF i <= value THEN 1 ELSE 0]

RECURSIVE BitsValue(_, _, _)
BitsValue(s, from, bits) ==
    IF bits = 0 THEN 0
    ELSE 2 * BitsValue(s, from, bits - 1) + s[from + bits]

\* BitRead::read(bits) after `pos` consumed bits: the value and the new
\* position, or end of stream (an io::Error) when fewer bits are left.
ReadBits(s, pos, bits) ==
    IF pos + bits > Len(s)
    THEN [status |-> "eof", value |-> 0, pos |-> pos]
    ELSE [status |-> "ok", value |-> BitsValue(s, pos, bits), pos |-> pos + bits]

\* BitRead::read_bit.
ReadBit(s, pos) == ReadBits(s, pos, 1)

\* BitRead::read_unary0: counts one bits up to the first zero bit.
ReadUnary0(s, pos) ==
    IF \A j \in (pos + 1)..Len(s) : s[j] = 1
    THEN [status |-> "eof", value |-> 0, pos |-> pos]
    ELSE LET z == CHOOSE j \in (pos + 1)..Len(s) :
                      s[j] = 0 /\ \A i \in (pos + 1)..(j - 1) : s[i] = 1
         IN  [status |-> "ok", value |-> z - pos - 1, pos |-> z]

(***************************************************************************)
(* RiceCoder (coding/rice_coding.rs).                                      *)
(***************************************************************************)
\* RiceCoder::new: 1u32.checked_shl(k) is None for k >= 32 (m = 2^k and the
\* mask m - 1 are used through Shr, LowBits and RiceProduct).
RiceCoder_new(k) ==
    IF k >= U32_BITS THEN [status |-> "panic", k |-> k] ELSE [status |-> "ok", k |-> k]

\* An encoder that writes the remainder least significant bit first.
RiceCoder_encode_LsbFirst(k, number) ==
    LET quotient == Shr(number, k)
        remainder == LowBits(number, k)
        msb == WriteBits(k, remainder)
    IN  WriteUnary0(quotient) \o [i \in 1..k |-> msb[k + 1 - i]]

\* RiceCoder::encode: the unary quotient, then the remainder on k bits.
RiceCoder_encode(k, number) ==
    LET quotient == Shr(number, k)
        remainder == LowBits(number, k)
    IN  WriteUnary0(quotient) \o WriteBits(k, remainder)

\* quotient.checked_mul(m) is None when quotient * 2^k >= 2^32.
RiceOverflows(k, quotient) == k >= 2 /\ quotient >= Pow2(U32_BITS - k)

\* quotient * 2^k + remainder as (top bit, 31 low bits), when it fits in a u32.
RiceProduct(k, quotient, remainder) ==
    IF k = 0 THEN [hi |-> 0, lo |-> quotient]
    ELSE [hi |-> quotient \div Pow2(31 - k),
          lo |-> IF k = 31 THEN remainder
                 ELSE (quotient % Pow2(31 - k)) * Pow2(k) + remainder]

\* A decoder that drops the remainder it has read.
RiceCoder_decode_NoRemainder(k, s, pos) ==
    LET q == ReadUnary0(s, pos)
        r == ReadBits(s, q.pos, k)
        v == RiceProduct(k, q.value, 0)
    IN  IF q.status # "ok" THEN [status |-> q.status, value |-> 0, hi |-> 0, pos |-> pos]
        ELSE IF r.status # "ok" THEN [status |-> r.status, value |-> 0, hi |-> 0, pos |-> pos]
        ELSE IF RiceOverflows(k, q.value)
        THEN [status |-> "panic", value |-> 0, hi |-> 0, pos |-> r.pos]
        ELSE [status |-> "ok", value |-> v.lo, hi |-> v.hi, pos |-> r.pos]

\* RiceCoder::decode: quotient.checked_mul(m).unwrap() + remainder; the
\* result is value + hi * 2^31.
RiceCoder_decode(k, s, pos) ==
    LET q == ReadUnary0(s, pos)
        r == ReadBits(s, q.pos, k)
        v == RiceProduct(k, q.value, r.value)
    IN  IF q.status # "ok" THEN [status |-> q.status, value |-> 0, hi |-> 0, pos |-> pos]
        ELSE IF r.status # "ok" THEN [status |-> r.status, value |-> 0, hi |-> 0, pos |-> pos]
        ELSE IF RiceOverflows(k, q.value)
        THEN [status |-> "panic", value |-> 0, hi |-> 0, pos |-> r.pos]
        ELSE [status |-> "ok", value |-> v.lo, hi |-> v.hi, pos |-> r.pos]

\* A code length that forgets the terminating zero of the unary part.
RiceCoder_code_length_NoStop(k, number) == Shr(number, k) + k

\* RiceCoder::code_length: (number >> k) + 1 + k.
RiceCoder_code_length(k, number) == Shr(number, k) + 1 + k

(***************************************************************************)
(* PhaseInCoder (coding/phase_in_coding.rs).                               *)
(***************************************************************************)
\* A constructor that takes the logarithm of 0 to be 0.
PhaseInCoder_new_AcceptsZero(n) ==
    IF ilog2(n) + 1 >= U32_BITS
    THEN [status |-> "panic", n |-> n, m |-> 0, left_p |-> 0, right_p |-> 0]
    ELSE LET m == ilog2(n)
             lpw == Pow2(m)
         IN  [status |-> "ok", n |-> n, m |-> m, left_p |-> n - lpw,
              right_p |-> lpw - (n - lpw)]

\* PhaseInCoder::new: panics when n = 0 (checked_ilog2) and when
\* rpw = 2^(m+1) does not fit in 32 bits (checked_shl). right_p = rpw - n is
\* computed as lpw - (n - lpw).
PhaseInCoder_new(n) ==
    IF n = 0 \/ ilog2(n) + 1 >= U32_BITS
    THEN [status |-> "panic", n |-> n, m |-> 0, left_p |-> 0, right_p |-> 0]
    ELSE LET m == ilog2(n)
             lpw == Pow2(m)
         IN  [status |-> "ok", n |-> n, m |-> m, left_p |-> n - lpw,
              right_p |-> lpw - (n - lpw)]

\* A rotation by right_p positions instead of left_p.
rotate_right_ByRightP(c, number) == U32AddMod(number, c.n - c.right_p, c.n)

\* PhaseInCoder::rotate_right: (number + n - left_p) % n.
rotate_right(c, number) == U32AddMod(number, c.n - c.left_p, c.n)

\* A rotation by one position too few.
rotate_left_OffByOne(c, number) ==
    U32AddMod(U32AddMod(number, c.left_p, c.n), c.n - 1, c.n)

\* A rotation back that omits the reduction modulo n (a sum of 2^31 or more
\* is shown as 2^31 - 1).
rotate_left_NoModulo(c, number) ==
    IF number <= I32_MAX - c.left_p THEN number + c.left_p ELSE I32_MAX

\* PhaseInCoder::rotate_left: (number + left_p) % n.
rotate_left(c, number) == U32AddMod(number, c.left_p, c.n)

\* An encoder that gives the value right_p a short codeword too.
PhaseInCoder_encode_ShortAtP(n, number) ==
    LET c == PhaseInCoder_new(n)
        rot == rotate_right(c, number)
        pair == (rot - c.right_p) \div 2
        last_bit == (rot - c.right_p) % 2
    IN  IF rot <= c.right_p THEN WriteBits(c.m, rot)
        ELSE WriteBits(c.m, pair + c.right_p) \o WriteBit(last_bit = 1)

\* An encoder that writes the m-bit field least significant bit first.
PhaseInCoder_encode_LsbFirst(n, number) ==
    LET c == PhaseInCoder_new(n)
        rot == rotate_right(c, number)
        pair == (rot - c.right_p) \div 2
        last_bit == (rot - c.right_p) % 2
        lsb(value) == [i \in 1..c.m |-> WriteBits(c.m, value)[c.m + 1 - i]]
    IN  IF rot < c.right_p THEN lsb(rot)
        ELSE lsb(pair + c.right_p) \o WriteBit(last_bit = 1)

\* PhaseInCoder::encode, for number < n (the assert of line 63).
PhaseInCoder_encode(n, number) ==
    LET c == PhaseInCoder_new(n)
        rot == rotate_right(c, number)
        pair == (rot - c.right_p) \div 2
        last_bit == (rot - c.right_p) % 2
    IN  IF rot < c.right_p THEN WriteBits(c.m, rot)
        ELSE WriteBits(c.m, pair + c.right_p) \o WriteBit(last_bit = 1)

\* PhaseInCoder::decode.
PhaseInCoder_decode(n, s, pos) ==
    LET c == PhaseInCoder_new(n)
        first_m == ReadBits(s, pos, c.m)
        bit == ReadBit(s, first_m.pos)
        pair == first_m.value - c.right_p
        number == pair * 2 + c.right_p + bit.value
    IN  IF first_m.status # "ok" THEN [status |-> "eof", value |-> 0, hi |-> 0, pos |-> pos]
        ELSE IF first_m.value < c.right_p
        THEN [status |-> "ok", value |-> rotate_left(c, first_m.value), hi |-> 0,
              pos |-> first_m.pos]
        ELSE IF bit.status # "ok" THEN [status |-> "eof", value |-> 0, hi |-> 0, pos |-> pos]
        ELSE [status |-> "ok", value |-> rotate_left(c, number), hi |-> 0, pos |-> bit.pos]

(***************************************************************************)
(* Colour transform (compression/color_transform.rs).                      *)
(***************************************************************************)
\* A forward transform that halves by an arithmetic shift while the inverse
\* keeps the truncating division.
rgb_to_ycocg_Shift(r, g, b) ==
    LET co == r - b
        t == b + FloorHalf(co)
        cg == g - t
        y == t + FloorHalf(cg)
    IN  <<y, co, cg>>

\* A forward transform whose Cg is not brought back to one extra bit: twice
\* the difference to t.
rgb_to_ycocg_DoubledCg(r, g, b) ==
    LET co == r - b
        t == b + RustDiv(co, 2)
        cg == 2 * (g - t)
        y == t + RustDiv(cg, 2)
    IN  <<y, co, cg>>

\* rgb_to_ycocg.
rgb_to_ycocg(r, g, b) ==
    LET co == r - b
        t == b + RustDiv(co, 2)
        cg == g - t
        y == t + RustDiv(cg, 2)
    IN  <<y, co, cg>>

\* ycocg_to_rgb.
ycocg_to_rgb(y, co, cg) ==
    LET t == y - RustDiv(cg, 2)
        g == cg + t
        b == t - RustDiv(co, 2)
        r == b + co
    IN  <<r, g, b>>

\* The YCoCg-R lifting steps with the halving done by an arithmetic shift.
ycocg_r_reference(r, g, b) ==
    LET co == r - b
        t == b + FloorHalf(co)
        cg == g - t
        y == t + FloorHalf(cg)
    IN  <<y, co, cg>>

(***************************************************************************)
(* 32-bit signed arithmetic of the codec (i32 in compression.rs).  The     *)
(* operands are i32 values; the predicates tell whether the exact result   *)
(* leaves the type, the Wrap operators give the two's complement result.   *)
(***************************************************************************)
AddOverflows(a, b) ==
    \/ b > 0 /\ a > I32_MAX - b
    \/ b < 0 /\ a < I32_MIN - b

SubOverflows(a, b) ==
    \/ b < 0 /\ a > I32_MAX + b
    \/ b > 0 /\ a < I32_MIN + b

WrapAdd(a, b) ==
    IF b > 0 /\ a > I32_MAX - b THEN (a + I32_MIN) + (b + I32_MIN)
    ELSE IF b < 0 /\ a < I32_MIN - b THEN (a - I32_MIN) + (b - I32_MIN)
    ELSE a + b

WrapSub(a, b) ==
    IF b = I32_MIN THEN WrapAdd(WrapAdd(a, I32_MAX), 1) ELSE WrapAdd(a, -b)

Max(a, b) == IF a >= b THEN a ELSE b
Min(a, b) == IF a <= b THEN a ELSE b

\* BitWrite::write_signed(32, value), BigEndian: the sign bit, then the low
\* 31 bits of the two's complement representation.
WriteSigned32(value) ==
    IF value >= 0 THEN <<0>> \o WriteBits(31, value)
    ELSE <<1>> \o WriteBits(31, value - I32_MIN)

\* BitRead::read_signed(32).
ReadSigned32(s, pos) ==
    IF pos + 32 > Len(s)
    THEN [status |-> "eof", value |-> 0, pos |-> pos]
    ELSE LET low == BitsValue(s, pos + 1, 31)
         IN  [status |-> "ok",
              value |-> IF s[pos + 1] = 0 THEN low ELSE I32_MIN + low,
              pos |-> pos + 32]

(***************************************************************************)
(* The pixel types (compression/traits.rs) and the header                  *)
(* (compression/format.rs).                                                *)
(***************************************************************************)
ColorTypes == {"Gray", "Rgb"}
PixelDepths == {"Eight", "Sixteen"}

\* `ColorType as u8`, `PixelDepth as u8`.
ColorType_byte(color_type) == IF color_type = "Gray" THEN 0 ELSE 1
PixelDepth_byte(pixel_depth) == IF pixel_depth = "Eight" THEN 0 ELSE 1

\* T::MAX of the subpixel type.
T_MAX(pixel_depth) == IF pixel_depth = "Eight" THEN U8_MAX ELSE U16_MAX

\* Intensity::K_VALUES.
K_VALUES(pixel_depth) ==
    IF pixel_depth = "Eight" THEN <<0, 1, 2, 3, 4, 5>>
    ELSE <<0, 1, 2, 3, 4, 5, 6, 7, 8, 9, 10, 11, 12, 13, 14>>

\* Intensity::MAX_CONTEXT as compression.rs uses it: one u32 per subpixel
\* type, shared by the Luma and the Rgb images of that type.  The traits
\* module of that revision is not in the tree; the value is the range sum of
\* the transformed domain, which the tests of color_transform.rs require
\* (every YCoCg context of u8 pixels is <= u8::MAX_CONTEXT).
MAX_CONTEXT(pixel_depth) == 2 * T_MAX(pixel_depth)

\* CodingOptions of compress / decompress_with_header; an Option is a
\* sequence of at most one element.
CodingOptions(pixel_depth) ==
    [max_context |-> MAX_CONTEXT(pixel_depth),
     k_values |-> K_VALUES(pixel_depth),
     periodic_count_scaling |-> <<COUNT_SCALING>>]

\* The header takes 4 + 1 + 1 + 4 + 4 bytes.
HEADER_BITS == 8 * (4 + 1 + 1 + 4 + 4)

\* b"FLCS".
Signature == <<70, 76, 67, 83>>

\* write_u32::<BigEndian> of a value below 2^31.
WriteU32(value) == <<0>> \o WriteBits(31, value)

\* write_header.
write_header(header) ==
    WriteBits(8, Signature[1]) \o WriteBits(8, Signature[2])
        \o WriteBits(8, Signature[3]) \o WriteBits(8, Signature[4])
        \o WriteBits(8, ColorType_byte(header.color_type))
        \o WriteBits(8, PixelDepth_byte(header.pixel_depth))
        \o WriteU32(header.width) \o WriteU32(header.height)

\* A read_header that converts the pixel depth before the color type.
read_header_DepthFirst(s) ==
    LET byte(n) == BitsValue(s, 8 * (n - 1), 8)
        err(e) == [status |-> "error", err |-> e, color_type |-> "Gray",
                   pixel_depth |-> "Eight", width |-> 0, height |-> 0]
    IN  IF Len(s) < 32 THEN err("IoError")
        ELSE IF <<byte(1), byte(2), byte(3), byte(4)>> # Signature
             THEN err("InvalidSignature")
        ELSE IF Len(s) < 48 THEN err("IoError")
        ELSE IF byte(6) \notin {0, 1} THEN err("InvalidPixelDepth")
        ELSE IF byte(5) \notin {0, 1} THEN err("InvalidColorType")
        ELSE IF Len(s) < HEADER_BITS THEN err("IoError")
        ELSE [status |-> "ok", err |-> "",
              color_type |-> IF byte(5) = 0 THEN "Gray" ELSE "Rgb",
              pixel_depth |-> IF byte(6) = 0 THEN "Eight" ELSE "Sixteen",
              width |-> BitsValue(s, 49, 31),
              height |-> BitsValue(s, 81, 31)]

\* read_header: the first failing read decides the error.  The widths and
\* heights of the model stay below 2^31 (bit 31 of a dimension is never set).
read_header(s) ==
    LET byte(n) == BitsValue(s, 8 * (n - 1), 8)
        err(e) == [status |-> "error", err |-> e, color_type |-> "Gray",
                   pixel_depth |-> "Eight", width |-> 0, height |-> 0]
    IN  IF Len(s) < 32 THEN err("IoError")
        ELSE IF <<byte(1), byte(2), byte(3), byte(4)>> # Signature
             THEN err("InvalidSignature")
        ELSE IF Len(s) < 40 THEN err("IoError")
        ELSE IF byte(5) \notin {0, 1} THEN err("InvalidColorType")
        ELSE IF Len(s) < 48 THEN err("IoError")
        ELSE IF byte(6) \notin {0, 1} THEN err("InvalidPixelDepth")
        ELSE IF Len(s) < HEADER_BITS THEN err("IoError")
        ELSE [status |-> "ok", err |-> "",
              color_type |-> IF byte(5) = 0 THEN "Gray" ELSE "Rgb",
              pixel_depth |-> IF byte(6) = 0 THEN "Eight" ELSE "Sixteen",
              width |-> BitsValue(s, 49, 31),
              height |-> BitsValue(s, 81, 31)]

(***************************************************************************)
(* PixelIntensity and its prefix codes (compression.rs).                   *)
(***************************************************************************)
\* encode_intensity.
encode_intensity(intensity) ==
    IF intensity = "InRange" THEN WriteBit(TRUE)
    ELSE IF intensity = "AboveRange" THEN WriteBit(FALSE) \o WriteBit(TRUE)
    ELSE WriteBit(FALSE) \o WriteBit(FALSE)

\* A decode_intensity that reads the second bit the other way round.
decode_intensity_Swapped(s, pos) ==
    LET in_range == ReadBit(s, pos)
        above == ReadBit(s, in_range.pos)
    IN  IF in_range.status # "ok"
        THEN [status |-> "eof", value |-> "InRange", pos |-> pos]
        ELSE IF in_range.value = 1
        THEN [status |-> "ok", value |-> "InRange", pos |-> in_range.pos]
        ELSE IF above.status # "ok"
        THEN [status |-> "eof", value |-> "InRange", pos |-> pos]
        ELSE [status |-> "ok",
              value |-> IF above.value = 1 THEN "BelowRange" ELSE "AboveRange",
              pos |-> above.pos]

\* decode_intensity.
decode_intensity(s, pos) ==
    LET in_range == ReadBit(s, pos)
        above == ReadBit(s, in_range.pos)
    IN  IF in_range.status # "ok"
        THEN [status |-> "eof", value |-> "InRange", pos |-> pos]
        ELSE IF in_range.value = 1
        THEN [status |-> "ok", value |-> "InRange", pos |-> in_range.pos]
        ELSE IF above.status # "ok"
        THEN [status |-> "eof", value |-> "InRange", pos |-> pos]
        ELSE [status |-> "ok",
              value |-> IF above.value = 1 THEN "AboveRange" ELSE "BelowRange",
              pos |-> above.pos]

(***************************************************************************)
(* KEstimator (compression/parameter_selection.rs).  context_map holds the *)
(* rows that were updated; every other row is the all-zero row that        *)
(* KEstimator::new pushed for it.                                          *)
(***************************************************************************)
\* KEstimator::new (k_values is never empty in the codec).
KEstimator_new(max_context, k_values, halve_at) ==
    [max_context |-> max_context, k_values |-> k_values,
     context_map |-> <<>>, halve_at |-> halve_at]

\* self.context_map[context].
ks_for_context(est, context) ==
    IF context \in DOMAIN est.context_map THEN est.context_map[context]
    ELSE [ki \in 1..Len(est.k_values) |-> 0]

\* iter().min() of a row.
RowMin(row) ==
    CHOOSE v \in {row[ki] : ki \in 1..Len(row)} : \A kj \in 1..Len(row) : v <= row[kj]

\* An update that adds the code length of the next candidate to each total
\* (the last candidate keeps its own).
KEstimator_update_WrongCandidate(est, context, encoded) ==
    IF ~(context < est.max_context) THEN [status |-> "panic", est |-> est]
    ELSE LET row == ks_for_context(est, context)
             next(ki) == IF ki < Len(row) THEN ki + 1 ELSE ki
             added == [ki \in 1..Len(row) |->
                          row[ki] + RiceCoder_code_length(est.k_values[next(ki)], encoded)]
             scaled == IF est.halve_at # <<>> /\ RowMin(added) > est.halve_at[1]
                       THEN [ki \in 1..Len(row) |-> added[ki] \div 2]
                       ELSE added
         IN  [status |-> "ok",
              est |-> [est EXCEPT !.context_map = (context :> scaled) @@ @]]

\* An update that halves the row as soon as its smallest total reaches the
\* threshold.
KEstimator_update_HalveAtEqual(est, context, encoded) ==
    IF ~(context < est.max_context) THEN [status |-> "panic", est |-> est]
    ELSE LET row == ks_for_context(est, context)
             added == [ki \in 1..Len(row) |->
                          row[ki] + RiceCoder_code_length(est.k_values[ki], encoded)]
             scaled == IF est.halve_at # <<>> /\ RowMin(added) >= est.halve_at[1]
                       THEN [ki \in 1..Len(row) |-> added[ki] \div 2]
                       ELSE added
         IN  [status |-> "ok",
              est |-> [est EXCEPT !.context_map = (context :> scaled) @@ @]]

\* An update that compares the smallest total with the threshold before it
\* adds the code lengths.
KEstimator_update_HalveBeforeAdd(est, context, encoded) ==
    IF ~(context < est.max_context) THEN [status |-> "panic", est |-> est]
    ELSE LET row == ks_for_context(est, context)
             scaled == IF est.halve_at # <<>> /\ RowMin(row) > est.halve_at[1]
                       THEN [ki \in 1..Len(row) |-> row[ki] \div 2]
                       ELSE row
             added == [ki \in 1..Len(row) |->
                          scaled[ki] + RiceCoder_code_length(est.k_values[ki], encoded)]
         IN  [status |-> "ok",
              est |-> [est EXCEPT !.context_map = (context :> added) @@ @]]

\* KEstimator::update.
KEstimator_update(est, context, encoded) ==
    IF ~(context < est.max_context) THEN [status |-> "panic", est |-> est]
    ELSE LET row == ks_for_context(est, context)
             added == [ki \in 1..Len(row) |->
                          row[ki] + RiceCoder_code_length(est.k_values[ki], encoded)]
             scaled == IF est.halve_at # <<>> /\ RowMin(added) > est.halve_at[1]
                       THEN [ki \in 1..Len(row) |-> added[ki] \div 2]
                       ELSE added
         IN  [status |-> "ok",
              est |-> [est EXCEPT !.context_map = (context :> scaled) @@ @]]

\* A get_k whose ties go to the last of the smallest totals (`<=` in the
\* scan instead of `<`).
KEstimator_get_k_LastMin(est, context) ==
    IF ~(context < est.max_context) THEN [status |-> "panic", k |-> 0]
    ELSE LET row == ks_for_context(est, context)
             best == CHOOSE ki \in 1..Len(row) :
                        /\ \A kj \in 1..Len(row) : row[ki] <= row[kj]
                        /\ \A kj \in (ki + 1)..Len(row) : row[kj] > row[ki]
         IN  [status |-> "ok", k |-> est.k_values[best]]

\* KEstimator::get_k: the first candidate with the smallest total.
KEstimator_get_k(est, context) ==
    IF ~(context < est.max_context) THEN [status |-> "panic", k |-> 0]
    ELSE LET row == ks_for_context(est, context)
             best == CHOOSE ki \in 1..Len(row) :
                        /\ \A kj \in 1..Len(row) : row[ki] <= row[kj]
                        /\ \A kj \in 1..(ki - 1) : row[kj] > row[ki]
         IN  [status |-> "ok", k |-> est.k_values[best]]

(***************************************************************************)
(* misc::nearest_neighbours(i, width): the two coded neighbours of the     *)
(* pixel at linear index i, or <<>> for None.                              *)
(***************************************************************************)
\* A predictor that takes the two pixels above on the whole first column,
\* its second row included.
nearest_neighbours_TwoAbove(i, width) ==
    LET x == i % width
        y == i \div width
    IN  IF x > 0 /\ y > 0 THEN <<i - 1, i - width>>
        ELSE IF y = 0 THEN (IF x >= 2 THEN <<i - 1, i - 2>> ELSE <<>>)
        ELSE <<i - width, i - 2 * width>>

\* A predictor that takes, on the first column of the second row, the pixel
\* above and that pixel's left neighbour.
nearest_neighbours_AboveLeft(i, width) ==
    LET x == i % width
        y == i \div width
    IN  IF x > 0 /\ y > 0 THEN <<i - 1, i - width>>
        ELSE IF y = 0 THEN (IF x >= 2 THEN <<i - 1, i - 2>> ELSE <<>>)
        ELSE IF y >= 2 THEN <<i - width, i - 2 * width>>
        ELSE IF width >= 2 THEN <<i - width, i - width - 1>>
        ELSE <<>>

\* nearest_neighbours.
nearest_neighbours(i, width) ==
    LET x == i % width
        y == i \div width
    IN  IF x > 0 /\ y > 0 THEN <<i - 1, i - width>>
        ELSE IF y = 0 THEN (IF x >= 2 THEN <<i - 1, i - 2>> ELSE <<>>)
        ELSE IF y >= 2 THEN <<i - width, i - 2 * width>>
        ELSE IF width >= 2 THEN <<i - width, i - width + 1>>
        ELSE <<>>

(***************************************************************************)
(* compress_channel and decompress_channel (compression.rs).               *)
(***************************************************************************)
\* What one turn of either loop computed, for the comparison of the two.
PixelInfo(i, l, h, context, k, intensity, value) ==
    [i |-> i, l |-> l, h |-> h, context |-> context, k |-> k,
     intensity |-> intensity, value |-> value]

NoInfo == PixelInfo(0, 0, 0, 0, 0, "none", 0)

\* The two literals compress_channel writes before the loop, and whether the
\* loop follows (the edge-case dimensions return early).
channel_literals(channel, width, height) ==
    IF width = 0 \/ height = 0
    THEN [bits |-> WriteSigned32(0) \o WriteSigned32(0), loop |-> FALSE]
    ELSE IF width = 1 /\ height = 1
    THEN [bits |-> WriteSigned32(channel[1]) \o WriteSigned32(0), loop |-> FALSE]
    ELSE [bits |-> WriteSigned32(channel[1]) \o WriteSigned32(channel[2]), loop |-> TRUE]

\* A loop body that also updates the estimator at an InRange pixel.
compress_pixel_UpdateInRange(channel, i, width, est) ==
    LET nn == nearest_neighbours(i, width)
        p == channel[i + 1]
        v1 == channel[nn[1] + 1]
        v2 == channel[nn[2] + 1]
        h == Max(v1, v2)
        l == Min(v1, v2)
        context == h - l
        got == KEstimator_get_k(est, context)
        k == got.k
        panic == [status |-> "panic", bits |-> <<>>, est |-> est, info |-> NoInfo]
        rice(intensity, to_encode) ==
            LET up == KEstimator_update(est, context, to_encode)
            IN  IF up.status # "ok" THEN panic
                ELSE [status |-> "ok",
                      bits |-> encode_intensity(intensity) \o RiceCoder_encode(k, to_encode),
                      est |-> up.est,
                      info |-> PixelInfo(i, l, h, context, k, intensity, p)]
    IN  IF nn = <<>> THEN panic
        ELSE IF SubOverflows(h, l) THEN panic
        ELSE IF got.status # "ok" \/ RiceCoder_new(k).status # "ok" THEN panic
        ELSE IF p >= l /\ p <= h
        THEN [status |-> "ok",
              bits |-> encode_intensity("InRange") \o PhaseInCoder_encode(context + 1, p - l),
              est |-> KEstimator_update(est, context, p - l).est,
              info |-> PixelInfo(i, l, h, context, k, "InRange", p)]
        ELSE IF p < l THEN rice("BelowRange", l - p - 1)
        ELSE rice("AboveRange", p - h - 1)

\* One turn of the loop of compress_channel, for the pixel at index i
\* (channel[i] of the code is channel[i + 1] here).
compress_pixel(channel, i, width, est) ==
    LET nn == nearest_neighbours(i, width)
        p == channel[i + 1]
        v1 == channel[nn[1] + 1]
        v2 == channel[nn[2] + 1]
        h == Max(v1, v2)
        l == Min(v1, v2)
        context == h - l
        got == KEstimator_get_k(est, context)
        k == got.k
        panic == [status |-> "panic", bits |-> <<>>, est |-> est, info |-> NoInfo]
        rice(intensity, to_encode) ==
            LET up == KEstimator_update(est, context, to_encode)
            IN  IF up.status # "ok" THEN panic
                ELSE [status |-> "ok",
                      bits |-> encode_intensity(intensity) \o RiceCoder_encode(k, to_encode),
                      est |-> up.est,
                      info |-> PixelInfo(i, l, h, context, k, intensity, p)]
    IN  IF nn = <<>> THEN panic
        ELSE IF SubOverflows(h, l) THEN panic
        ELSE IF got.status # "ok" \/ RiceCoder_new(k).status # "ok" THEN panic
        ELSE IF p >= l /\ p <= h
        THEN [status |-> "ok",
              bits |-> encode_intensity("InRange") \o PhaseInCoder_encode(context + 1, p - l),
              est |-> est,
              info |-> PixelInfo(i, l, h, context, k, "InRange", p)]
        ELSE IF p < l THEN rice("BelowRange", l - p - 1)
        ELSE rice("AboveRange", p - h - 1)

\* u32::checked_mul(width, height) is None: the product of two values below
\* 2^31 reaches 2^32.
U32MulOverflows(a, b) ==
    /\ a >= 2
    /\ b > 2 * (I32_MAX \div a)
             + (IF (I32_MAX % a) >= a - 1 - (I32_MAX % a) THEN 1 ELSE 0)

\* decompress_channel up to its loop: the two literals, the edge-case
\* dimensions, the pixel buffer.
decompress_literals(width, height, s, pos) ==
    LET pixel1 == ReadSigned32(s, pos)
        pixel2 == ReadSigned32(s, pixel1.pos)
        ret(status, err, buf, loop) ==
            [status |-> status, err |-> err, buf |-> buf, loop |-> loop,
             pos |-> pixel2.pos]
    IN  IF pixel1.status # "ok" \/ pixel2.status # "ok"
        THEN ret("error", "IoError", <<>>, FALSE)
        ELSE IF width = 0 \/ height = 0 THEN ret("ok", "", <<>>, FALSE)
        ELSE IF width = 1 /\ height = 1 THEN ret("ok", "", <<pixel1.value>>, FALSE)
        ELSE IF U32MulOverflows(width, height)
        THEN ret("error", "InvalidDimensions", <<>>, FALSE)
        ELSE ret("ok", "",
                 [j \in 1..(width * height) |->
                     IF j = 1 THEN pixel1.value
                     ELSE IF j = 2 THEN pixel2.value ELSE 0],
                 TRUE)

\* The pixel of a BelowRange code: l - encoded - 1, with checked_sub.
below_value(l, encoded) ==
    IF SubOverflows(l, encoded) \/ l - encoded = I32_MIN
    THEN [status |-> "error", value |-> 0]
    ELSE [status |-> "ok", value |-> l - encoded - 1]

\* An AboveRange pixel rebuilt without the + 1 of the code.
above_value_NoPlusOne(h, encoded) ==
    IF AddOverflows(encoded, h) \/ encoded + h = I32_MAX
    THEN [status |-> "error", value |-> 0]
    ELSE [status |-> "ok", value |-> encoded + h]

\* The pixel of an AboveRange code: encoded + h + 1, with checked_add.
above_value(h, encoded) ==
    IF AddOverflows(encoded, h) \/ encoded + h = I32_MAX
    THEN [status |-> "error", value |-> 0]
    ELSE [status |-> "ok", value |-> encoded + h + 1]

\* One turn of the loop of decompress_channel, for the pixel at index i,
\* reading the stream s after pos consumed bits.
decompress_pixel(buf, i, width, est, s, pos) ==
    LET nn == nearest_neighbours(i, width)
        v1 == buf[nn[1] + 1]
        v2 == buf[nn[2] + 1]
        h == Max(v1, v2)
        l == Min(v1, v2)
        context == h - l
        got == KEstimator_get_k(est, context)
        k == got.k
        intensity == decode_intensity(s, pos)
        ret(status, err, value, newpos, newest) ==
            [status |-> status, err |-> err, value |-> value, pos |-> newpos,
             est |-> newest,
             info |-> IF status = "ok"
                      THEN PixelInfo(i, l, h, context, k, intensity.value, value)
                      ELSE NoInfo]
        panic == ret("panic", "", 0, pos, est)
        error(e) == ret("error", e, 0, pos, est)
        in_range ==
            LET p == PhaseInCoder_decode(context + 1, s, intensity.pos)
            IN  IF p.status = "panic" THEN panic
                ELSE IF p.status # "ok" THEN error("IoError")
                ELSE IF AddOverflows(p.value, l) THEN error("ValueOverflow")
                ELSE ret("ok", "", p.value + l, p.pos, est)
        out_of_range(below) ==
            LET encoded == RiceCoder_decode(k, s, intensity.pos)
                up == KEstimator_update(est, context, encoded.value)
                pixel == IF below THEN below_value(l, encoded.value)
                         ELSE above_value(h, encoded.value)
            IN  IF encoded.status = "panic" THEN panic
                ELSE IF encoded.status # "ok" THEN error("IoError")
                ELSE IF encoded.hi = 1 THEN error("InvalidValue")
                ELSE IF up.status # "ok" THEN panic
                ELSE IF pixel.status # "ok" THEN error("ValueOverflow")
                ELSE ret("ok", "", pixel.value, encoded.pos, up.est)
    IN  IF nn = <<>> THEN panic
        ELSE IF SubOverflows(h, l) THEN panic
        ELSE IF got.status # "ok" \/ RiceCoder_new(k).status # "ok" THEN panic
        ELSE IF intensity.status # "ok" THEN error("IoError")
        ELSE IF intensity.value = "InRange" THEN in_range
        ELSE out_of_range(intensity.value = "BelowRange")

(***************************************************************************)
(* The images and their conversion to and from channels (the compress and  *)
(* decompress_with_header impls of compression.rs).                        *)
(***************************************************************************)
Image(color_type, pixel_depth, width, height, raw) ==
    [color_type |-> color_type, pixel_depth |-> pixel_depth,
     width |-> width, height |-> height, raw |-> raw]

NumChannels(color_type) == IF color_type = "Gray" THEN 1 ELSE 3

\* The channels compress codes: the raw samples of a Luma image, the Y, Co
\* and Cg planes of an Rgb image.
Channels(img) ==
    IF img.color_type = "Gray" THEN <<img.raw>>
    ELSE LET num_pixels == img.width * img.height
             t(i) == rgb_to_ycocg(img.raw[3 * i - 2], img.raw[3 * i - 1], img.raw[3 * i])
         IN  <<[i \in 1..num_pixels |-> t(i)[1]],
               [i \in 1..num_pixels |-> t(i)[2]],
               [i \in 1..num_pixels |-> t(i)[3]]>>

\* ycocg_to_rgb on i32 with the additions wrapping (overflow checks off).
ycocg_to_rgb_wrapping(y, co, cg) ==
    LET t == WrapSub(y, RustDiv(cg, 2))
        g == WrapAdd(cg, t)
        b == WrapSub(t, RustDiv(co, 2))
        r == WrapAdd(b, co)
    IN  <<r, g, b>>

\* Whether an addition of ycocg_to_rgb leaves i32 (a panic when the overflow
\* checks are on).
ycocg_to_rgb_overflows(y, co, cg) ==
    LET t == WrapSub(y, RustDiv(cg, 2))
        b == WrapSub(t, RustDiv(co, 2))
    IN  \/ SubOverflows(y, RustDiv(cg, 2))
        \/ AddOverflows(cg, t)
        \/ SubOverflows(t, RustDiv(co, 2))
        \/ AddOverflows(b, co)

\* value.try_into::<T>() fails.
NotInT(value, pixel_depth) == value < 0 \/ value > T_MAX(pixel_depth)

DecompressResult(status, err, img) == [status |-> status, err |-> err, image |-> img]

NoImage == Image("Gray", "Eight", 0, 0, <<>>)
NoResult == DecompressResult("none", "", NoImage)

\* The end of decompress_with_header: the channels back to samples of T.
\* checked tells whether the build checks arithmetic overflow.
channels_to_image(hdr, chans, checked) ==
    LET num_pixels == hdr.width * hdr.height
        rgb(i) == ycocg_to_rgb_wrapping(chans[1][i], chans[2][i], chans[3][i])
        over(i) == checked /\ ycocg_to_rgb_overflows(chans[1][i], chans[2][i], chans[3][i])
        invalid(i) ==
            IF hdr.color_type = "Gray" THEN NotInT(chans[1][i], hdr.pixel_depth)
            ELSE \E c \in 1..3 : NotInT(rgb(i)[c], hdr.pixel_depth)
        bad == {i \in 1..num_pixels : invalid(i) \/ (hdr.color_type = "Rgb" /\ over(i))}
        first == CHOOSE i \in bad : \A j \in bad : i <= j
        raw == IF hdr.color_type = "Gray" THEN chans[1]
               ELSE [j \in 1..(3 * num_pixels) |-> rgb((j - 1) \div 3 + 1)[((j - 1) % 3) + 1]]
    IN  IF bad = {}
        THEN DecompressResult("ok", "",
                 Image(hdr.color_type, hdr.pixel_depth, hdr.width, hdr.height, raw))
        ELSE IF hdr.color_type = "Rgb" /\ over(first)
        THEN DecompressResult("panic", "", NoImage)
        ELSE DecompressResult("error", "InvalidValue", NoImage)

(***************************************************************************)
(* The images of the model.                                                *)
(***************************************************************************)
Dims == {d \in (0..MaxDim) \X (0..MaxDim) : d[1] * d[2] <= MaxPixels}

\* The 8-bit samples repeat a context with a large residual, so that the
\* estimator leaves k = 0; the 16-bit samples are the two extremes (a residual
\* of 65534 coded with k = 0 is a code of 65535 bits).
GraySamples(pixel_depth) ==
    IF pixel_depth = "Eight" THEN {0, 100, 200, U8_MAX} ELSE {0, U16_MAX}

RgbSamples(pixel_depth) ==
    IF pixel_depth = "Eight"
    THEN {<<0, 0, 0>>, <<100, 100, 100>>, <<200, 200, 200>>,
          <<U8_MAX, 0, 0>>, <<0, 0, U8_MAX>>}
    ELSE {<<0, 0, 0>>, <<U16_MAX, 0, 0>>}

GrayImages(pixel_depth, dims, samples) ==
    {Image("Gray", pixel_depth, d[1], d[2], raw) :
        <<d, raw>> \in UNION {{d} \X [1..(d[1] * d[2]) -> samples] : d \in dims}}

RgbImages(pixel_depth, dims, samples) ==
    {Image("Rgb", pixel_depth, p[1][1], p[1][2],
           [j \in 1..(3 * p[1][1] * p[1][2]) |-> p[2][(j - 1) \div 3 + 1][((j - 1) % 3) + 1]]) :
        p \in UNION {{d} \X [1..(d[1] * d[2]) -> samples] : d \in dims}}

Images ==
    UNION {GrayImages(pd, Dims, GraySamples(pd)) \cup RgbImages(pd, Dims, RgbSamples(pd)) :
              pd \in PixelDepths}

\* The images whose files are altered before they are decompressed.
TamperDims == {<<1, 1>>, <<3, 1>>, <<2, 2>>}

TamperImages ==
    GrayImages("Eight", TamperDims, {0, 200})
        \cup RgbImages("Eight", TamperDims, {<<0, 0, 0>>, <<200, 200, 200>>})

(***************************************************************************)
(* The codec: compress writes the file of an image, decompress_image reads *)
(* it back.  One action per step of the two calls.                         *)
(***************************************************************************)
\* The harnesses of the pure functions are not running.
CoderIdle ==
    stream = <<>> /\ written = <<>> /\ rpos = 0 /\ decoded = <<>> /\ built = <<>>
ColorIdle == px = <<>> /\ ycc = <<>> /\ back = <<>>

NoEstimator == KEstimator_new(0, <<>>, <<>>)

\* The harnesses of the estimator and of the predictor are not running.
NoCall == [op |-> "none", status |-> "ok", context |-> 0, k |-> 0]
EstIdle == kest = NoEstimator /\ klog = <<>> /\ kprev = NoEstimator /\ kres = NoCall
NbIdle == nbin = <<>> /\ nbout = <<>>
NoHeader == [status |-> "none", err |-> "", color_type |-> "Gray",
             pixel_depth |-> "Eight", width |-> 0, height |-> 0]

EncoderIdle ==
    /\ cres = "none" /\ echans = <<>> /\ ec = 0 /\ ei = 0
    /\ eest = NoEstimator /\ etrace = <<>>

DecoderIdle ==
    /\ dhdr = NoHeader /\ dpos = 0 /\ dchans = <<>> /\ dbuf = <<>> /\ di = 0
    /\ dest = NoEstimator /\ dtrace = <<>> /\ dres = NoResult

CodecIdle ==
    /\ image = NoImage /\ pc = "idle" /\ sink = <<>> /\ tampered = FALSE
    /\ EncoderIdle /\ DecoderIdle

\* The estimator both channel functions create from the options.
ChannelEstimator(pixel_depth) ==
    LET options == CodingOptions(pixel_depth)
    IN  KEstimator_new(options.max_context, options.k_values,
                       options.periodic_count_scaling)

\* compress: the header is written, the channels are made.
CompressBegin ==
    /\ pc = "start"
    /\ sink' = write_header(image)
    /\ echans' = Channels(image)
    /\ ec' = 1
    /\ pc' = "chan"
    /\ UNCHANGED <<image, tampered, cres, ei, eest, etrace, decVars>>

\* Where compress goes when compress_channel returns for channel ec.
AfterChannel == IF ec < Len(echans) THEN "chan" ELSE "align"

\* compress_channel up to its loop: the literals, the estimator.
CompressChannelBegin ==
    /\ pc = "chan"
    /\ LET lit == channel_literals(echans[ec], image.width, image.height)
           total_size == image.width * image.height
       IN  /\ sink' = sink \o lit.bits
           /\ eest' = IF lit.loop THEN ChannelEstimator(image.pixel_depth) ELSE eest
           /\ IF lit.loop /\ 2 < total_size
              THEN pc' = "pixel" /\ ei' = 2 /\ ec' = ec
              ELSE /\ pc' = AfterChannel
                   /\ ec' = IF ec < Len(echans) THEN ec + 1 ELSE ec
                   /\ ei' = ei
    /\ UNCHANGED <<image, tampered, cres, echans, etrace, decVars>>

\* One turn of the loop of compress_channel; the last turn returns to
\* compress.
CompressPixel ==
    /\ pc = "pixel"
    /\ LET r == compress_pixel(echans[ec], ei, image.width, eest)
           total_size == image.width * image.height
       IN  IF r.status = "panic"
           THEN /\ pc' = "done"
                /\ cres' = "panic"
                /\ UNCHANGED <<sink, eest, etrace, ei, ec>>
           ELSE /\ sink' = sink \o r.bits
                /\ eest' = r.est
                /\ etrace' = Append(etrace, [c |-> ec, info |-> r.info, est |-> r.est])
                /\ cres' = cres
                /\ IF ei + 1 < total_size
                   THEN pc' = pc /\ ei' = ei + 1 /\ ec' = ec
                   ELSE /\ pc' = AfterChannel
                        /\ ec' = IF ec < Len(echans) THEN ec + 1 ELSE ec
                        /\ ei' = ei
    /\ UNCHANGED <<image, tampered, echans, decVars>>

\* byte_align and flush: zero bits up to the next byte.
CompressEnd ==
    /\ pc = "align"
    /\ sink' = sink \o [j \in 1..((8 - (Len(sink) % 8)) % 8) |-> 0]
    /\ cres' = "ok"
    /\ pc' = "compressed"
    /\ UNCHANGED <<image, tampered, echans, ec, ei, eest, etrace, decVars>>

\* decompress_image: read_header, then the dispatch on its fields.
DecompressBegin ==
    /\ pc = "compressed"
    /\ LET hdr == read_header(sink)
       IN  IF hdr.status # "ok"
           THEN /\ dres' = DecompressResult("error", hdr.err, NoImage)
                /\ pc' = "done"
                /\ UNCHANGED <<dhdr, dpos>>
           ELSE /\ dhdr' = hdr
                /\ dpos' = HEADER_BITS
                /\ pc' = "dchan"
                /\ dres' = dres
    /\ UNCHANGED <<image, sink, tampered, encVars, dchans, dbuf, di, dest, dtrace>>

\* Where decompress_with_header goes when a channel is complete.
AfterDChannel(chans) ==
    IF Len(chans) < NumChannels(dhdr.color_type) THEN "dchan" ELSE "dconv"

\* decompress_channel up to its loop.
DecompressChannelBegin ==
    /\ pc = "dchan"
    /\ LET lit == decompress_literals(dhdr.width, dhdr.height, sink, dpos)
       IN  IF lit.status # "ok"
           THEN /\ dres' = DecompressResult("error", lit.err, NoImage)
                /\ pc' = "done"
                /\ UNCHANGED <<dpos, dchans, dbuf, di, dest>>
           ELSE /\ dpos' = lit.pos
                /\ dres' = dres
                /\ dest' = IF lit.loop THEN ChannelEstimator(dhdr.pixel_depth) ELSE dest
                /\ IF lit.loop /\ 2 < Len(lit.buf)
                   THEN /\ dbuf' = lit.buf
                        /\ di' = 2
                        /\ pc' = "dpixel"
                        /\ dchans' = dchans
                   ELSE /\ dchans' = Append(dchans, lit.buf)
                        /\ pc' = AfterDChannel(dchans')
                        /\ UNCHANGED <<dbuf, di>>
    /\ UNCHANGED <<image, sink, tampered, encVars, dhdr, dtrace>>

\* One turn of the loop of decompress_channel; the last turn returns the
\* channel.
DecompressPixel ==
    /\ pc = "dpixel"
    /\ LET r == decompress_pixel(dbuf, di, dhdr.width, dest, sink, dpos)
       IN  IF r.status # "ok"
           THEN /\ dres' = DecompressResult(r.status, r.err, NoImage)
                /\ pc' = "done"
                /\ UNCHANGED <<dpos, dchans, dbuf, di, dest, dtrace>>
           ELSE /\ dbuf' = [dbuf EXCEPT ![di + 1] = r.value]
                /\ dpos' = r.pos
                /\ dest' = r.est
                /\ dtrace' = Append(dtrace, [c |-> Len(dchans) + 1, info |-> r.info,
                                            est |-> r.est])
                /\ dres' = dres
                /\ IF di + 1 < Len(dbuf)
                   THEN pc' = pc /\ di' = di + 1 /\ dchans' = dchans
                   ELSE /\ dchans' = Append(dchans, dbuf')
                        /\ pc' = AfterDChannel(dchans')
                        /\ di' = di
    /\ UNCHANGED <<image, sink, tampered, encVars, dhdr>>

\* The end of decompress_with_header: the samples are narrowed to T.  The
\* additions of ycocg_to_rgb panic or wrap on overflow, as the build has it.
DecompressEnd ==
    /\ pc = "dconv"
    /\ \E checked \in BOOLEAN : dres' = channels_to_image(dhdr, dchans, checked)
    /\ pc' = "done"
    /\ UNCHANGED <<image, sink, tampered, encVars, dhdr, dpos, dchans, dbuf, di,
                   dest, dtrace>>

\* The file is altered between the two calls: one bit is flipped (of the
\* dimensions only the two low bits, so that they stay small), or the file
\* is cut at a byte boundary.
TamperBits ==
    (1..48) \cup {79, 80, 111, 112} \cup ((HEADER_BITS + 1)..Len(sink))

Tamper ==
    /\ pc = "compressed"
    /\ ~tampered
    /\ \/ \E b \in TamperBits : sink' = [sink EXCEPT ![b] = 1 - @]
       \/ \E n \in 0..(Len(sink) \div 8 - 1) : sink' = SubSeq(sink, 1, 8 * n)
    /\ tampered' = TRUE
    /\ UNCHANGED <<image, pc, encVars, decVars>>

CodecStart ==
    /\ CoderIdle /\ ColorIdle /\ EstIdle /\ NbIdle
    /\ pc = "start" /\ sink = <<>> /\ tampered = FALSE
    /\ EncoderIdle /\ DecoderIdle

Init == CodecStart /\ image \in Images

CodecNext ==
    \/ CompressBegin \/ CompressChannelBegin \/ CompressPixel \/ CompressEnd
    \/ DecompressBegin \/ DecompressChannelBegin \/ DecompressPixel \/ DecompressEnd

Next == CodecNext /\ UNCHANGED <<coderVars, colorVars, estVars, nbVars>>

Spec == Init /\ [][Next]_vars

InitTamper == CodecStart /\ image \in TamperImages

NextTamper == (CodecNext \/ Tamper) /\ UNCHANGED <<coderVars, colorVars, estVars, nbVars>>

SpecTamper == InitTamper /\ [][NextTamper]_vars

(***************************************************************************)
(* Harnesses for the pure functions: the inputs are drawn from bounded     *)
(* sets, the actions apply the functions.                                  *)
(***************************************************************************)

\* One encode call appended to the stream (test_rice_decoding_extensive,
\* test_phase_in_decoding_extensive: all the codes are written, then read).
EncodeCall(param, value, bits) ==
    /\ decoded = <<>>
    /\ stream' = stream \o bits
    /\ written' = Append(written, [param |-> param, value |-> value, nbits |-> Len(bits)])
    /\ UNCHANGED <<rpos, decoded, built>>

\* One decode call at the reader's position.
DecodeCall(res) ==
    /\ decoded' = Append(decoded, [status |-> res.status, value |-> res.value,
                                  hi |-> res.hi, nbits |-> res.pos - rpos])
    /\ rpos' = res.pos
    /\ UNCHANGED <<stream, written, built>>

\* ---- Rice harness -------------------------------------------------------
RiceKs == IF written = <<>> THEN 0..MAX_K ELSE {0, 3, MAX_K}

InitRice == CoderIdle /\ ColorIdle /\ CodecIdle /\ EstIdle /\ NbIdle

RiceEncodeStep ==
    /\ Len(written) < MaxCodes
    /\ \E k \in RiceKs :
       \E n \in (0..MaxRiceN) \cup (IF written = <<>> THEN {7, 10, 12} ELSE {}) :
           EncodeCall(k, n, RiceCoder_encode(k, n))
    /\ UNCHANGED <<colorVars, codecVars, estVars, nbVars>>

RiceDecodeStep ==
    /\ Len(decoded) < Len(written)
    /\ DecodeCall(RiceCoder_decode(written[Len(decoded) + 1].param, stream, rpos))
    /\ UNCHANGED <<colorVars, codecVars, estVars, nbVars>>

NextRice == RiceEncodeStep \/ RiceDecodeStep

SpecRice == InitRice /\ [][NextRice]_vars

\* ---- Phased-in harness --------------------------------------------------
\* The largest n PhaseInCoder::new accepts.
PhaseBigN == I32_MAX

PhaseNs == IF written = <<>> THEN (1..MaxPhaseN) \cup {PhaseBigN} ELSE {1, 3, 5}

PhaseValues(n) ==
    IF n <= MaxPhaseN THEN 0..(n - 1)
    ELSE {0, 1, n \div 2, n - PhaseInCoder_new(n).left_p, n - 2, n - 1}

InitPhaseIn == CoderIdle /\ ColorIdle /\ CodecIdle /\ EstIdle /\ NbIdle

PhaseInEncodeStep ==
    /\ Len(written) < MaxCodes
    /\ \E n \in PhaseNs : \E x \in PhaseValues(n) :
           EncodeCall(n, x, PhaseInCoder_encode(n, x))
    /\ UNCHANGED <<colorVars, codecVars, estVars, nbVars>>

PhaseInDecodeStep ==
    /\ Len(decoded) < Len(written)
    /\ DecodeCall(PhaseInCoder_decode(written[Len(decoded) + 1].param, stream, rpos))
    /\ UNCHANGED <<colorVars, codecVars, estVars, nbVars>>

NextPhaseIn == PhaseInEncodeStep \/ PhaseInDecodeStep

SpecPhaseIn == InitPhaseIn /\ [][NextPhaseIn]_vars

\* ---- Colour harness -----------------------------------------------------
ColorSamples == (0..MaxRGB) \cup {U8_MAX - 1, U8_MAX, U16_MAX}

InitColor ==
    /\ CoderIdle
    /\ CodecIdle
    /\ EstIdle /\ NbIdle
    /\ px \in ColorSamples \X ColorSamples \X ColorSamples
    /\ ycc = <<>>
    /\ back = <<>>

ColorForward ==
    /\ ycc = <<>>
    /\ ycc' = rgb_to_ycocg(px[1], px[2], px[3])
    /\ UNCHANGED <<px, back>>
    /\ UNCHANGED <<coderVars, codecVars, estVars, nbVars>>

ColorInverse ==
    /\ ycc # <<>>
    /\ back = <<>>
    /\ back' = ycocg_to_rgb(ycc[1], ycc[2], ycc[3])
    /\ UNCHANGED <<px, ycc>>
    /\ UNCHANGED <<coderVars, codecVars, estVars, nbVars>>

NextColor == ColorForward \/ ColorInverse

SpecColor == InitColor /\ [][NextColor]_vars

(***************************************************************************)
(* Claims about the codec.                                                 *)
(***************************************************************************)
\* C1: round trip. For every image, once compress and then decompress_image
\* of the written bytes are over, decompress_image has returned an image
\* equal to the original (same type, dimensions and samples).
C1_RoundTrip ==
    pc = "done" => (dres.status = "ok" /\ dres.image = image)

\* C2: compress never fails on its own. No assertion, unwrap or bounds check
\* of compress fires, whatever the image.
C2_CompressNeverPanics == cres # "panic"

\* C3: decompress_image is total. Whatever the bytes it is given
\* (well-formed, one bit flipped, or cut short), the call ends with an image
\* or a DecompressionError, never with a panic.
C3_DecompressNeverPanics == dres.status # "panic"

\* C4: lockstep. Reading the stream the encoder produced, the decoder
\* computes at each pixel index the same L, H, context, k and intensity as
\* the encoder did for that pixel of that channel, and its estimator table
\* after the pixel is the encoder's table after the pixel; when it is done it
\* has gone through every pixel the encoder coded.
C4_Lockstep ==
    /\ \A j \in 1..Len(dtrace) :
          /\ j <= Len(etrace)
          /\ dtrace[j] = etrace[j]
    /\ (pc = "done" /\ cres = "ok") => Len(dtrace) = Len(etrace)

\* The decoder went through a whole file in which a pixel was Rice coded
\* with a k > 0, which the estimator chose from an earlier residual.
C4_Witness ==
    /\ pc = "done"
    /\ dres.status = "ok"
    /\ Len(dtrace) = Len(etrace)
    /\ \E j \in 1..Len(dtrace) :
          /\ dtrace[j].info.k > 0
          /\ dtrace[j].info.intensity \in {"BelowRange", "AboveRange"}
          /\ dtrace[j].est.context_map # <<>>

(***************************************************************************)
(* Claims about the coders and the colour transform.                       *)
(***************************************************************************)
\* C5: Rice round-trip. Every decode call of RiceCoder(k) on the stream of
\* the encode calls returns the number that was encoded with that k and
\* consumes exactly the bits that encode call wrote.
C5_RiceRoundTrip ==
    \A i \in 1..Len(decoded) :
        /\ decoded[i].status = "ok"
        /\ decoded[i].hi = 0
        /\ decoded[i].value = written[i].value
        /\ decoded[i].nbits = written[i].nbits

\* A sequence of two codes with different k, both decoded, the stream used up.
C5_Witness ==
    /\ Len(decoded) = 2
    /\ written[1].param = MAX_K
    /\ written[2].param = 3
    /\ written[1].value = MaxRiceN
    /\ written[2].value > 0
    /\ rpos = Len(stream)

\* C6: Rice code length. The number of bits an encode call of RiceCoder(k)
\* writes for n is code_length(n) = (n >> k) + 1 + k.
C6_RiceCodeLength ==
    \A i \in 1..Len(written) :
        /\ written[i].nbits = RiceCoder_code_length(written[i].param, written[i].value)
        /\ written[i].nbits =
               Shr(written[i].value, written[i].param) + 1 + written[i].param

\* A code with a nonzero quotient and a nonempty remainder has been written.
C6_Witness ==
    /\ Len(written) = 2
    /\ written[1].param = 1
    /\ written[1].value = MaxRiceN
    /\ written[1].nbits = (MaxRiceN \div 2) + 2
    /\ written[2].param = MAX_K

\* C7: phased-in round-trip. Every decode call of PhaseInCoder(n) on the
\* stream of the encode calls returns the value that was encoded and
\* consumes exactly the bits that encode call wrote.
C7_PhaseInRoundTrip ==
    \A i \in 1..Len(decoded) :
        /\ decoded[i].status = "ok"
        /\ decoded[i].value < written[i].param
        /\ decoded[i].value = written[i].value
        /\ decoded[i].nbits = written[i].nbits

\* Two codes back to back, the first a long codeword of a range that is not
\* a power of two, both decoded.
C7_Witness ==
    /\ Len(decoded) = 2
    /\ written[1].param = 7
    /\ written[1].nbits = 3
    /\ written[2].param = 5
    /\ written[2].nbits = 2
    /\ rpos = Len(stream)

\* The sizes n of the harness whose whole domain is enumerated.
C8_SmallNs == {written[i].param : i \in 1..Len(written)} \cap (1..MaxPhaseN)

\* C8: phased-in code lengths. For a range size n with m = floor(log2 n),
\* exactly 2^(m+1) - n of the values 0..n-1 get m bits and the remaining
\* 2(n - 2^m) values get m+1 bits.
C8_PhaseInCodeLengths ==
    \A n \in C8_SmallNs :
        LET m == ilog2(n)
            short == {x \in 0..(n - 1) : Len(PhaseInCoder_encode(n, x)) = m}
            long == {x \in 0..(n - 1) : Len(PhaseInCoder_encode(n, x)) = m + 1}
        IN  /\ Cardinality(short) = Pow2(m + 1) - n
            /\ Cardinality(long) = 2 * (n - Pow2(m))
            /\ short \cup long = 0..(n - 1)

\* A range with both short and long codewords: n = 7 has one short and six long.
C8_Witness ==
    /\ Len(written) >= 1
    /\ written[1].param = 7
    /\ written[1].nbits = 2

\* C9: colour transform exactness. ycocg_to_rgb(rgb_to_ycocg(r, g, b)) is
\* (r, g, b).
C9_ColorRoundTrip == back # <<>> => back = px

\* A triple with negative odd Co and Cg has gone through both transforms.
C9_Witness ==
    /\ back # <<>>
    /\ px = <<0, 0, 1>>
    /\ ycc[2] = -1

\* C10: the forward transform equals the lifting formula whose halving is an
\* arithmetic right shift (floor division), also for negative Co and Cg.
C10_ForwardIsFloorLifting ==
    ycc # <<>> => ycc = ycocg_r_reference(px[1], px[2], px[3])

MaxEstContext == 2  \* max_context of the estimator under test
MaxUpdates == 3     \* update calls made on it

\* k_values of test_estimator_periodic_count_scaling.
EstKValues == <<0, 1, 2>>

\* Residuals of the update calls: 0 is cheapest with k = 0, 2 costs the same
\* with every candidate, 4084, 4088 and 4092 bring the smallest total of a
\* fresh row to 1024, 1025 and 1026.
EstResiduals == {0, 2, 4084, 4088, 4092}

\* The contexts of the calls: every index of context_map.
EstContexts == 0..MaxEstContext

\* The thresholds: none, the codec's, and a small one that the code lengths
\* of the residuals 0 and 2 (at most 3) stay under while their totals pass it.
InitEstimator ==
    /\ CoderIdle /\ ColorIdle /\ CodecIdle /\ NbIdle
    /\ \E halve_at \in {<<>>, <<COUNT_SCALING>>, <<4>>} :
          kest = KEstimator_new(MaxEstContext, EstKValues, halve_at)
    /\ klog = <<>>
    /\ kprev = NoEstimator
    /\ kres = NoCall

\* estimator.update(context, encoded).
EstUpdate ==
    /\ kres.status = "ok"
    /\ Len(klog) < MaxUpdates
    /\ \E context \in EstContexts, encoded \in EstResiduals :
          LET up == KEstimator_update(kest, context, encoded)
          IN  /\ kres' = [op |-> "update", status |-> up.status,
                          context |-> context, k |-> 0]
              /\ kprev' = kest
              /\ kest' = up.est
              /\ klog' = IF up.status = "ok"
                         THEN Append(klog, [context |-> context, encoded |-> encoded])
                         ELSE klog
    /\ UNCHANGED <<coderVars, colorVars, codecVars, nbVars>>

\* estimator.get_k(context).
EstGetK ==
    /\ kres.status = "ok"
    /\ \E context \in EstContexts :
          LET got == KEstimator_get_k(kest, context)
          IN  /\ kres' = [op |-> "get_k", status |-> got.status,
                          context |-> context, k |-> got.k]
              /\ kprev' = kest
    /\ UNCHANGED <<kest, klog>>
    /\ UNCHANGED <<coderVars, colorVars, codecVars, nbVars>>

NextEstimator == EstUpdate \/ EstGetK

SpecEstimator == InitEstimator /\ [][NextEstimator]_vars

\* The sum of RiceCoder(k).code_length(r) over the residuals r that the
\* first n updates of the log passed for the context.
RECURSIVE SumOfCodeLengths(_, _, _)
SumOfCodeLengths(k, context, n) ==
    IF n = 0 THEN 0
    ELSE SumOfCodeLengths(k, context, n - 1)
             + (IF klog[n].context = context
                THEN RiceCoder_code_length(k, klog[n].encoded) ELSE 0)

\* C12: estimator consistency. With no scaling threshold, every entry of
\* every row is the sum of the code lengths, with that row's candidate, of
\* exactly the residuals that were updated into the row's context; an update
\* leaves the rows of the other contexts as they were.
C12_EstimatorConsistency ==
    kest.halve_at = <<>> =>
        /\ \A c \in EstContexts, ki \in 1..Len(EstKValues) :
              ks_for_context(kest, c)[ki] = SumOfCodeLengths(EstKValues[ki], c, Len(klog))
        /\ kres.op = "update" =>
              \A c \in EstContexts \ {kres.context} :
                  ks_for_context(kest, c) = ks_for_context(kprev, c)

\* Three updates without scaling, into two contexts, with different
\* residuals in the same context.
C12_Witness ==
    /\ kest.halve_at = <<>>
    /\ klog = <<[context |-> 0, encoded |-> 4088], [context |-> 1, encoded |-> 2],
                [context |-> 0, encoded |-> 2]>>
    /\ ks_for_context(kest, 0) = <<4092, 2049, 1028>>

C14_GetK ==
    (kres.op = "get_k" /\ kres.status = "ok") =>
        LET row == ks_for_context(kprev, kres.context)
        IN  /\ \E ki \in 1..Len(EstKValues) :
                  /\ kres.k = EstKValues[ki]
                  /\ \A kj \in 1..Len(EstKValues) : row[ki] <= row[kj]
                  /\ \A kj \in 1..Len(EstKValues) : row[kj] = row[ki] => ki <= kj
            /\ klog = <<>> => kres.k = EstKValues[1]
            /\ kest = kprev

\* get_k on a row whose three totals are equal (one residual of 2) returned
\* the first candidate.
C14_Witness ==
    /\ kres.op = "get_k"
    /\ kres.status = "ok"
    /\ klog # <<>>
    /\ ks_for_context(kest, kres.context) = <<3, 3, 3>>
    /\ kres.k = EstKValues[1]

\* C15: get_k and update return normally for every context of the closed
\* range [0, max_context], the context equal to max_context included.
C15_ClosedRangeNeverPanics ==
    (kres.op \in {"get_k", "update"} /\ kres.context \in 0..kest.max_context) =>
        kres.status = "ok"

(***************************************************************************)
(* Harness of the predictor (test_nearest_neighbours of misc/mod.rs): a    *)
(* pixel of an image, then the call.                                       *)
(***************************************************************************)
MaxNbDim == 4       \* widths and heights of the images of the predictor harness

InitNeighbours ==
    /\ CoderIdle /\ ColorIdle /\ CodecIdle /\ EstIdle
    /\ \E width \in 1..MaxNbDim, height \in 1..MaxNbDim :
          \E i \in 0..(width * height - 1) :
              nbin = [i |-> i, width |-> width, height |-> height]
    /\ nbout = <<>>

\* nearest_neighbours for the pixel: nbout holds the returned option.
NeighboursCall ==
    /\ nbin # <<>>
    /\ nbout = <<>>
    /\ nbout' = <<nearest_neighbours(nbin.i, nbin.width)>>
    /\ UNCHANGED <<nbin, coderVars, colorVars, codecVars, estVars>>

NextNeighbours == NeighboursCall

SpecNeighbours == InitNeighbours /\ [][NextNeighbours]_vars

\* C16: boundary predictor. With (x, y) = (i mod W, i / W): left and above
\* inside the image; on the first row the two pixels to the left when
\* x >= 2, none otherwise; on the first column below the first row the two
\* pixels above when y >= 2, else the pixel above and its right neighbour
\* when W >= 2, else none.  None is returned exactly for the indices 0 and 1.
C16_BoundaryPredictor ==
    nbout # <<>> =>
        LET i == nbin.i
            W == nbin.width
            x == i % W
            y == i \div W
            nn == nbout[1]
        IN  /\ (x > 0 /\ y > 0) => nn = <<i - 1, i - W>>
            /\ (y = 0 /\ x >= 2) => nn = <<i - 1, i - 2>>
            /\ (y = 0 /\ x < 2) => nn = <<>>
            /\ (x = 0 /\ y >= 2) => nn = <<i - W, i - 2 * W>>
            /\ (x = 0 /\ y = 1 /\ W >= 2) => nn = <<i - W, i - W + 1>>
            /\ (x = 0 /\ y = 1 /\ W < 2) => nn = <<>>
            /\ nn = <<>> <=> i \in {0, 1}

\* The first pixel of the second row of an image three pixels wide got the
\* pixel above it and that pixel's right neighbour.
C16_Witness ==
    /\ nbin = [i |-> 3, width |-> 3, height |-> 2]
    /\ nbout = <<(<<0, 1>>)>>

(***************************************************************************)
(* Harness of the intensity codes (test_intensity_indicator_decoding):     *)
(* indicators are written back to back, the stream may lose its last bit,  *)
(* then decode_intensity is called until it fails.                         *)
(***************************************************************************)
MaxIntensities == 3 \* indicators written back to back

PixelIntensities == {"InRange", "AboveRange", "BelowRange"}

\* The bits the first n encode calls of the harness wrote.
RECURSIVE WrittenBits(_)
WrittenBits(n) == IF n = 0 THEN 0 ELSE WrittenBits(n - 1) + written[n].nbits

InitIntensity == CoderIdle /\ ColorIdle /\ CodecIdle /\ EstIdle /\ NbIdle

IntensityEncodeStep ==
    /\ Len(written) < MaxIntensities
    /\ Len(stream) = WrittenBits(Len(written))
    /\ \E intensity \in PixelIntensities :
          EncodeCall(0, intensity, encode_intensity(intensity))
    /\ UNCHANGED <<colorVars, codecVars, estVars, nbVars>>

\* The stream ends inside its last indicator.
IntensityCutStep ==
    /\ decoded = <<>>
    /\ written # <<>>
    /\ written[Len(written)].nbits = 2
    /\ Len(stream) = WrittenBits(Len(written))
    /\ stream' = SubSeq(stream, 1, Len(stream) - 1)
    /\ UNCHANGED <<written, rpos, decoded, built>>
    /\ UNCHANGED <<colorVars, codecVars, estVars, nbVars>>

IntensityDecodeStep ==
    /\ written # <<>>
    /\ Len(decoded) <= Len(written)
    /\ decoded # <<>> => decoded[Len(decoded)].status = "ok"
    /\ LET r == decode_intensity(stream, rpos)
       IN  DecodeCall([status |-> r.status, value |-> r.value, hi |-> 0, pos |-> r.pos])
    /\ UNCHANGED <<colorVars, codecVars, estVars, nbVars>>

NextIntensity == IntensityEncodeStep \/ IntensityCutStep \/ IntensityDecodeStep

SpecIntensity == InitIntensity /\ [][NextIntensity]_vars

\* C17: intensity indicator. The indicators are written as 1 (InRange), 01
\* (AboveRange) and 00 (BelowRange); the j-th decode_intensity call on their
\* concatenation returns the j-th indicator written and consumes the bits
\* that were written for it, and it fails when the stream ends before the
\* end of that indicator.
C17_IntensityIndicator ==
    /\ \A j \in 1..Len(written) :
          LET code == IF written[j].value = "InRange" THEN <<1>>
                      ELSE IF written[j].value = "AboveRange" THEN <<0, 1>>
                      ELSE <<0, 0>>
          IN  /\ written[j].nbits = Len(code)
              /\ \A b \in 1..Len(code) :
                    WrittenBits(j - 1) + b <= Len(stream) =>
                        stream[WrittenBits(j - 1) + b] = code[b]
    /\ \A j \in 1..Len(decoded) :
          IF j <= Len(written) /\ WrittenBits(j) <= Len(stream)
          THEN /\ decoded[j].status = "ok"
               /\ decoded[j].value = written[j].value
               /\ decoded[j].nbits = written[j].nbits
          ELSE decoded[j].status = "eof"

\* The three indicators were written, the stream lost the last bit of the
\* third, and the third call failed after two calls that returned the first
\* two indicators.
C17_Witness ==
    /\ Len(written) = 3
    /\ written[1].value = "AboveRange"
    /\ written[2].value = "InRange"
    /\ written[3].value = "BelowRange"
    /\ Len(stream) = 4
    /\ Len(decoded) = 3
    /\ decoded[2].value = "InRange"
    /\ decoded[3].status = "eof"

(***************************************************************************)
(* Harness of the header (compression/format.rs): write_header, then some  *)
(* of the first six bytes are overwritten, then read_header.               *)
(***************************************************************************)
MaxHeaderDim == 1   \* widths and heights 0..MaxHeaderDim besides the large ones

\* 66051 is 0x00010203: its four bytes differ.
Headers ==
    LET HeaderDims == (0..MaxHeaderDim) \cup {66051, I32_MAX}
    IN  [color_type : ColorTypes, pixel_depth : PixelDepths,
         width : HeaderDims, height : HeaderDims]

\* The bytes that replace a byte of the signature, the color type byte and
\* the pixel depth byte.
HeaderOverwrites == {<<1, 0>>, <<4, 84>>} \cup ({5, 6} \X {0, 1, 2, 255})

InitHeader ==
    /\ ColorIdle /\ CodecIdle /\ EstIdle /\ NbIdle
    /\ stream = <<>> /\ rpos = 0 /\ decoded = <<>> /\ built = <<>>
    /\ \E header \in Headers : written = <<header>>

HeaderWriteStep ==
    /\ stream = <<>>
    /\ stream' = write_header(written[1])
    /\ UNCHANGED <<written, rpos, decoded, built>>
    /\ UNCHANGED <<colorVars, codecVars, estVars, nbVars>>

HeaderOverwriteStep ==
    /\ stream # <<>>
    /\ decoded = <<>>
    /\ \E o \in HeaderOverwrites :
          stream' = [j \in 1..Len(stream) |->
                        IF j > 8 * (o[1] - 1) /\ j <= 8 * o[1]
                        THEN WriteBits(8, o[2])[j - 8 * (o[1] - 1)]
                        ELSE stream[j]]
    /\ UNCHANGED <<written, rpos, decoded, built>>
    /\ UNCHANGED <<colorVars, codecVars, estVars, nbVars>>

HeaderReadStep ==
    /\ stream # <<>>
    /\ decoded = <<>>
    /\ decoded' = <<read_header(stream)>>
    /\ UNCHANGED <<stream, written, rpos, built>>
    /\ UNCHANGED <<colorVars, codecVars, estVars, nbVars>>

NextHeader == HeaderWriteStep \/ HeaderOverwriteStep \/ HeaderReadStep

SpecHeader == InitHeader /\ [][NextHeader]_vars

\* C18: header validation. On 14 bytes read_header returns InvalidSignature
\* when bytes 0..3 are not FLCS; otherwise InvalidColorType when byte 4 is
\* not 0 or 1; otherwise InvalidPixelDepth when byte 5 is not 0 or 1;
\* otherwise the header with the big-endian width and height; on the bytes
\* of write_header it returns the header that was written.
C18_HeaderValidation ==
    decoded # <<>> =>
        LET res == decoded[1]
            HeaderByte(n) == BitsValue(stream, 8 * n, 8)
            be(n) == ((HeaderByte(n) * 256 + HeaderByte(n + 1)) * 256
                          + HeaderByte(n + 2)) * 256 + HeaderByte(n + 3)
        IN  /\ Len(stream) = 8 * 14
            /\ IF <<HeaderByte(0), HeaderByte(1), HeaderByte(2), HeaderByte(3)>>
                      # <<70, 76, 67, 83>>
               THEN res.status = "error" /\ res.err = "InvalidSignature"
               ELSE IF HeaderByte(4) \notin {0, 1}
               THEN res.status = "error" /\ res.err = "InvalidColorType"
               ELSE IF HeaderByte(5) \notin {0, 1}
               THEN res.status = "error" /\ res.err = "InvalidPixelDepth"
               ELSE /\ res.status = "ok"
                    /\ res.color_type = (IF HeaderByte(4) = 0 THEN "Gray" ELSE "Rgb")
                    /\ res.pixel_depth = (IF HeaderByte(5) = 0 THEN "Eight" ELSE "Sixteen")
                    /\ res.width = be(6)
                    /\ res.height = be(10)
            /\ stream = write_header(written[1]) =>
                  /\ res.status = "ok"
                  /\ [color_type |-> res.color_type, pixel_depth |-> res.pixel_depth,
                      width |-> res.width, height |-> res.height] = written[1]

\* A header whose color type byte and pixel depth byte are both invalid was
\* refused for its color type.
C18_Witness ==
    /\ decoded # <<>>
    /\ BitsValue(stream, 8 * 4, 8) = 2
    /\ BitsValue(stream, 8 * 5, 8) = 255
    /\ written[1].width = 66051
    /\ decoded[1].err = "InvalidColorType"

(***************************************************************************)
(* Truncated files: the file compress_image wrote is cut at a byte         *)
(* boundary before decompress_image reads it.                              *)
(***************************************************************************)
Truncate ==
    /\ pc = "compressed"
    /\ ~tampered
    /\ \E n \in 0..(Len(sink) \div 8 - 1) : sink' = SubSeq(sink, 1, 8 * n)
    /\ tampered' = TRUE
    /\ UNCHANGED <<image, pc, encVars, decVars>>

NextTruncate ==
    (CodecNext \/ Truncate) /\ UNCHANGED <<coderVars, colorVars, estVars, nbVars>>

SpecTruncate == InitTamper /\ [][NextTruncate]_vars

\* C19: truncation. A file that ends inside the header, a pixel literal, an
\* intensity indicator, a Rice code or a phased-in code makes decompression
\* fail with the Truncated error, and no image is returned.
C19_TruncatedError ==
    (tampered /\ pc = "done") =>
        /\ dres.status = "error"
        /\ dres.err = "Truncated"
        /\ dres.image = NoImage

(***************************************************************************)
(* Harness of RiceCoder::decode on any unary quotient and k-bit remainder: *)
(* the two fields are written with write_unary0 and write, then decoded.   *)
(***************************************************************************)
MaxRiceQuotient == 4   \* quotients 0..MaxRiceQuotient

RiceWriteFieldsStep ==
    /\ written = <<>>
    /\ \E k \in 0..MAX_K, quotient \in 0..MaxRiceQuotient :
       \E remainder \in {0, LowBits(1, k), LowBits(I32_MAX, k)} :
           EncodeCall(k, quotient, WriteUnary0(quotient) \o WriteBits(k, remainder))
    /\ UNCHANGED <<colorVars, codecVars, estVars, nbVars>>

NextRiceFields == RiceWriteFieldsStep \/ RiceDecodeStep

SpecRiceFields == InitRice /\ [][NextRiceFields]_vars

\* C20: Rice decode failure. RiceCoder(k).decode returns q * 2^k + r for the
\* unary quotient q and the k-bit remainder r it reads, and when q * 2^k
\* does not fit in 32 bits it returns an Overflow error value: it neither
\* panics nor wraps.
C20_RiceDecodeOverflow ==
    \A j \in 1..Len(decoded) :
        LET k == written[j].param
            q == written[j].value
            r == BitsValue(stream, q + 1, k)
        IN  IF k >= 2 /\ q >= Pow2(U32_BITS - k)
            THEN decoded[j].status = "overflow"
            ELSE /\ decoded[j].status = "ok"
                 /\ decoded[j].hi = (IF k = 0 THEN 0 ELSE q \div Pow2(31 - k))
                 /\ decoded[j].value =
                        (IF k = 0 THEN q
                         ELSE IF k = 31 THEN r
                         ELSE (q % Pow2(31 - k)) * Pow2(k) + r)

\* C21: pixel literals. Each channel starts with two literal fields: in the
\* grayscale path unsigned fields of the pixel depth (8 or 16 bits), in the
\* RGB path 32-bit signed fields; the second literal is zero when W*H < 2,
\* both are zero when W or H is 0, and nothing but zero bits follows the
\* literals of a grayscale image of at most one pixel. An image without
\* pixels decompresses to the same empty image.
C21_PixelLiterals ==
    LET n == image.width * image.height
        first == IF n >= 1 THEN echans[1][1] ELSE 0
        second == IF n >= 2 THEN echans[1][2] ELSE 0
        depth == IF image.pixel_depth = "Eight" THEN 8 ELSE 16
    IN  /\ pc = "compressed" =>
              IF image.color_type = "Gray"
              THEN /\ Len(sink) >= HEADER_BITS + 2 * depth
                   /\ BitsValue(sink, HEADER_BITS, depth) = first
                   /\ BitsValue(sink, HEADER_BITS + depth, depth) = second
                   /\ n < 2 => \A j \in (HEADER_BITS + depth + 1)..Len(sink) : sink[j] = 0
              ELSE /\ ReadSigned32(sink, HEADER_BITS).value = first
                   /\ ReadSigned32(sink, HEADER_BITS + 32).value = second
        /\ (pc = "done" /\ cres = "ok" /\ n = 0) =>
              (dres.status = "ok" /\ dres.image = image)

C24_BitOrder ==
    pc = "compressed" =>
        LET msb(bits, v) == [j \in 1..bits |-> (v \div Pow2(bits - j)) % 2]
            literal(v) == IF v >= 0 THEN <<0>> \o msb(31, v)
                          ELSE <<1>> \o msb(31, v - I32_MIN)
            n == image.width * image.height
            literals(c) == literal(IF n >= 1 THEN echans[c][1] ELSE 0)
                               \o literal(IF n >= 2 THEN echans[c][2] ELSE 0)
            rice(k, e) == [j \in 1..(Shr(e, k) + 1) |-> IF j <= Shr(e, k) THEN 1 ELSE 0]
                              \o msb(k, LowBits(e, k))
            phase(info) ==
                LET c == PhaseInCoder_new(info.context + 1)
                    rot == rotate_right(c, info.value - info.l)
                IN  IF rot < c.right_p THEN msb(c.m, rot)
                    ELSE msb(c.m, (rot - c.right_p) \div 2 + c.right_p)
                             \o <<(rot - c.right_p) % 2>>
            code(info) ==
                IF info.intensity = "InRange" THEN <<1>> \o phase(info)
                ELSE IF info.intensity = "AboveRange"
                THEN <<0, 1>> \o rice(info.k, info.value - info.h - 1)
                ELSE <<0, 0>> \o rice(info.k, info.l - info.value - 1)
            RECURSIVE coded(_)
            coded(j) ==
                IF j > Len(etrace) THEN <<>>
                ELSE (IF j = 1 \/ etrace[j - 1].c # etrace[j].c
                      THEN literals(etrace[j].c) ELSE <<>>)
                         \o code(etrace[j].info) \o coded(j + 1)
            RECURSIVE uncoded(_)
            uncoded(c) == IF c > Len(echans) THEN <<>> ELSE literals(c) \o uncoded(c + 1)
            body == IF etrace = <<>> THEN uncoded(1) ELSE coded(1)
            end == HEADER_BITS + Len(body)
        IN  /\ Len(sink) % 8 = 0
            /\ Len(sink) >= end
            /\ Len(sink) - end < 8
            /\ SubSeq(sink, HEADER_BITS + 1, end) = body
            /\ \A j \in (end + 1)..Len(sink) : sink[j] = 0

\* A file with a Rice code whose remainder has two bits or more, a phased-in
\* code whose field has two bits or more, and padding in its last byte.
C24_Witness ==
    /\ pc = "compressed"
    /\ \E j \in 1..Len(etrace) :
          etrace[j].info.intensity # "InRange" /\ etrace[j].info.k >= 2
    /\ \E j \in 1..Len(etrace) :
          etrace[j].info.intensity = "InRange" /\ etrace[j].info.context >= 3
    /\ sink[Len(sink)] = 0

(***************************************************************************)
(* Harness of PhaseInCoder::new on any u32: the argument is                *)
(* hi * 2^31 + n; the coder that was built then encodes and decodes.       *)
(***************************************************************************)
PhaseInNewStep ==
    /\ built = <<>>
    /\ \E hi \in {0, 1} :
       \E n \in (0..MaxPhaseN) \cup {Pow2(30) - 1, Pow2(30), I32_MAX - 1, I32_MAX} :
           \* for an argument of 2^31 or more checked_ilog2 is 31 and
           \* 1u32.checked_shl(32) is None
           built' = <<[hi |-> hi, n |-> n,
                       coder |-> IF hi = 1
                                 THEN [status |-> "panic", n |-> n, m |-> 0,
                                       left_p |-> 0, right_p |-> 0]
                                 ELSE PhaseInCoder_new(n)]>>
    /\ UNCHANGED <<stream, written, rpos, decoded>>
    /\ UNCHANGED <<colorVars, codecVars, estVars, nbVars>>

PhaseInBuiltEncodeStep ==
    /\ built # <<>>
    /\ built[1].coder.status = "ok"
    /\ Len(written) < MaxCodes
    /\ \E x \in {v \in PhaseValues(built[1].n) : v < built[1].n} :
           EncodeCall(built[1].n, x, PhaseInCoder_encode(built[1].n, x))
    /\ UNCHANGED <<colorVars, codecVars, estVars, nbVars>>

NextPhaseInNew == PhaseInNewStep \/ PhaseInBuiltEncodeStep \/ PhaseInDecodeStep

SpecPhaseInNew == InitPhaseIn /\ [][NextPhaseInNew]_vars

\* C25: PhaseInCoder construction and arithmetic. PhaseInCoder::new(n)
\* succeeds for every n in [1, 2^31) and panics for n = 0 and n >= 2^31; for
\* n = 1 encode writes zero bits and decode consumes zero bits and returns
\* 0; and for n in [1, 2^31) and x in [0, n-1] no intermediate value of new,
\* of the rotations, of encode or of decode is negative or exceeds 2^32 - 1.
C25_PhaseInConstruction ==
    built # <<>> =>
        LET c == built[1].coder
            n == built[1].n
            \* a + b <= 2^32 - 1, for a and b below 2^31
            fits(a, b) == a >= 0 /\ b >= 0 /\ (a - I32_MAX) - 1 <= I32_MAX - b
        IN  /\ c.status = "ok" <=> (built[1].hi = 0 /\ n >= 1)
            /\ c.status = "ok" =>
                  /\ Pow2(c.m) <= n /\ n - Pow2(c.m) < Pow2(c.m)
                  /\ c.left_p = n - Pow2(c.m)
                  /\ c.right_p >= 1
                  /\ fits(c.right_p, n)               \* rpw = right_p + n
                  /\ c.right_p + c.left_p = Pow2(c.m)
            /\ \A i \in 1..Len(written) :
                  LET x == written[i].value
                      rot == rotate_right(c, x)
                  IN  /\ x < n
                      /\ fits(x, n) /\ n - c.left_p >= 0    \* number + n - left_p
                      /\ rot >= 0 /\ rot < n
                      /\ rot >= c.right_p => fits((rot - c.right_p) \div 2, c.right_p)
                      /\ n = 1 => written[i].nbits = 0
            /\ \A i \in 1..Len(decoded) :
                  LET first_m == BitsValue(stream, rpos - decoded[i].nbits, c.m)
                      number == (first_m - c.right_p) * 2 + c.right_p
                  IN  /\ decoded[i].status = "ok"
                      /\ i = Len(decoded) =>
                            /\ first_m >= c.right_p =>
                                  /\ fits(first_m - c.right_p, first_m - c.right_p)
                                  /\ fits(number, 1)
                                  /\ fits(number + 1, c.left_p)
                            /\ first_m < c.right_p => fits(first_m, c.left_p)
                      /\ n = 1 => decoded[i].nbits = 0 /\ decoded[i].value = 0

\* The coder of the largest range was built, and its last value was encoded
\* and decoded.
C25_Witness ==
    /\ built # <<>>
    /\ built[1].hi = 0
    /\ built[1].n = I32_MAX
    /\ decoded # <<>>
    /\ decoded[1].value = I32_MAX - 1

\* C26: short phased-in codewords sit in the middle of the range. With
\* P_left = n - 2^m and P_right = 2^(m+1) - n, the values coded on m bits are
\* exactly P_left .. P_left + P_right - 1; P_left values lie below this block
\* and P_left values above it, all coded on m + 1 bits.
C26_ShortCodewordsMidRange ==
    /\ \A i \in 1..Len(written) :
          LET n == written[i].param
              m == ilog2(n)
              P_left == n - Pow2(m)
              P_right == Pow2(m) - P_left
              x == written[i].value
          IN  /\ written[i].nbits = m <=> (x >= P_left /\ x - P_left < P_right)
              /\ written[i].nbits = m + 1 <=> (x < P_left \/ x - P_left >= P_right)
    /\ \A n \in {written[i].param : i \in 1..Len(written)} \cap (1..MaxPhaseN) :
          LET m == ilog2(n)
              P_left == n - Pow2(m)
              P_right == Pow2(m + 1) - n
              short == {x \in 0..(n - 1) : Len(PhaseInCoder_encode(n, x)) = m}
              long == (0..(n - 1)) \ short
          IN  /\ short = P_left..(P_left + P_right - 1)
              /\ Cardinality({x \in long : x < P_left}) = P_left
              /\ Cardinality({x \in long : x >= P_left + P_right}) = P_left
              /\ \A x \in long : Len(PhaseInCoder_encode(n, x)) = m + 1

\* The middle value of n = 7 was written on two bits, and a value above it
\* on three.
C26_Witness ==
    /\ Len(written) = 2
    /\ written[1] = [param |-> 7, value |-> 3, nbits |-> 2]
    /\ written[2] = [param |-> 5, value |-> 4, nbits |-> 3]

\* C27: estimator frame condition. While a channel is coded the estimator
\* table changes only at the pixels classified BelowRange or AboveRange,
\* where it becomes update(ctx, residual) of the table before the pixel, with
\* the pixel's own context and residual (L - p - 1 or p - H - 1); at an
\* InRange pixel it is left as it was. The same holds for the decoder.
C27_EstimatorFrame ==
    LET frame(trace) ==
            \A j \in 1..Len(trace) :
                LET info == trace[j].info
                    before == IF j = 1 \/ trace[j - 1].c # trace[j].c
                              THEN ChannelEstimator(image.pixel_depth)
                              ELSE trace[j - 1].est
                    residual == IF info.intensity = "BelowRange"
                                THEN info.l - info.value - 1
                                ELSE info.value - info.h - 1
                IN  IF info.intensity = "InRange"
                    THEN trace[j].est = before
                    ELSE /\ info.intensity \in {"BelowRange", "AboveRange"}
                         /\ residual >= 0
                         /\ trace[j].est = KEstimator_update(before, info.context, residual).est
    IN  frame(etrace) /\ frame(dtrace)

\* The decoder met an InRange pixel right after a pixel that updated the
\* table of the same channel.
C27_Witness ==
    /\ pc = "done"
    /\ \E j \in 2..Len(dtrace) :
          /\ dtrace[j].c = dtrace[j - 1].c
          /\ dtrace[j].info.intensity = "InRange"
          /\ dtrace[j - 1].info.intensity = "AboveRange"
          /\ dtrace[j].est # ChannelEstimator(image.pixel_depth)

\* C28: the neighbours are already coded. For every width W >= 1 and every
\* pixel of linear index i >= 2 of the image, nearest_neighbours returns two
\* distinct positions of the image, both with a linear index below i: the
\* unwrap of the result does not fail and the decoder reads values it has
\* reconstructed.
C28_NeighboursAlreadyCoded ==
    (nbout # <<>> /\ nbin.i >= 2) =>
        LET nn == nbout[1]
        IN  /\ nn # <<>>
            /\ Len(nn) = 2
            /\ nn[1] # nn[2]
            /\ \A j \in 1..2 :
                  /\ nn[j] >= 0
                  /\ nn[j] < nbin.i
                  /\ nn[j] < nbin.width * nbin.height

\* The first pixel of the second row of an image two pixels wide, whose
\* neighbours are the two pixels of the first row.
C28_Witness ==
    /\ nbin = [i |-> 2, width |-> 2, height |-> 2]
    /\ nbout = <<(<<0, 1>>)>>

(***************************************************************************)
(* Harness of PhaseInCoder::decode on arbitrary bits: a coder is built,    *)
(* the reader is given m + 1 bits that no encoder wrote, decode is called. *)
(***************************************************************************)
PhaseInFeedStep ==
    /\ built # <<>>
    /\ built[1].coder.status = "ok"
    /\ written = <<>>
    /\ stream = <<>>
    /\ LET c == built[1].coder
           fields == IF c.n <= MaxPhaseN THEN 0..(Pow2(c.m) - 1)
                     ELSE {0, 1, c.right_p - 1, c.right_p, Pow2(c.m) - 2, Pow2(c.m) - 1}
       IN  \E first_m \in {v \in fields : v < Pow2(c.m)}, bit \in {0, 1} :
               stream' = WriteBits(c.m, first_m) \o <<bit>>
    /\ UNCHANGED <<written, rpos, decoded, built>>
    /\ UNCHANGED <<colorVars, codecVars, estVars, nbVars>>

PhaseInBuiltDecodeStep ==
    /\ built # <<>>
    /\ written = <<>>
    /\ stream # <<>>
    /\ decoded = <<>>
    /\ DecodeCall(PhaseInCoder_decode(built[1].n, stream, rpos))
    /\ UNCHANGED built
    /\ UNCHANGED <<colorVars, codecVars, estVars, nbVars>>

NextPhaseInBits == PhaseInNewStep \/ PhaseInFeedStep \/ PhaseInBuiltDecodeStep

SpecPhaseInBits == InitPhaseIn /\ [][NextPhaseInBits]_vars

\* C29: PhaseIn decode is safe on arbitrary bits. For n in [1, 2^31) and any
\* m + 1 bits, PhaseInCoder(n).decode reads m or m + 1 bits and returns a
\* value in [0, n - 1]: the long codeword's pair index first_m - right_p is
\* not negative and the value is below n, so that with n = H - L + 1 the
\* pixel L + value lies in [L, H].
C29_PhaseInDecodeSafe ==
    (built # <<>> /\ decoded # <<>>) =>
        LET c == built[1].coder
            first_m == BitsValue(stream, 0, c.m)
        IN  /\ Len(decoded) = 1
            /\ decoded[1].status = "ok"
            /\ decoded[1].nbits = (IF first_m < c.right_p THEN c.m ELSE c.m + 1)
            /\ decoded[1].hi = 0
            /\ decoded[1].value >= 0
            /\ decoded[1].value <= c.n - 1
            /\ first_m >= c.right_p =>
                  (first_m - c.right_p) * 2 + c.right_p + stream[c.m + 1] <= c.n - 1

\* The coder of the largest range decoded 31 one bits: the last long codeword.
C29_Witness ==
    /\ built # <<>>
    /\ built[1].n = I32_MAX
    /\ stream = [j \in 1..31 |-> 1]
    /\ decoded # <<>>
    /\ decoded[1].nbits = 31

\* C30: bounded estimator rows. With a scaling threshold T, if the code
\* length of every residual passed to update is at most T with every
\* candidate k, then after every update the smallest total of every row is
\* at most T: one halving per update is enough.
C30_BoundedRows ==
    (/\ kest.halve_at # <<>>
     /\ \A j \in 1..Len(klog), ki \in 1..Len(EstKValues) :
           RiceCoder_code_length(EstKValues[ki], klog[j].encoded) <= kest.halve_at[1])
        => \A c \in EstContexts :
               \E ki \in 1..Len(EstKValues) :
                   ks_for_context(kest, c)[ki] <= kest.halve_at[1]

\* Three updates of one row under the small threshold: the second and the
\* third each brought the smallest total to 6 and halved the row.
C30_Witness ==
    /\ kest.halve_at = <<4>>
    /\ klog = [j \in 1..3 |-> [context |-> 1, encoded |-> 2]]
    /\ kres.op = "update"
    /\ ks_for_context(kprev, 1) = <<3, 3, 3>>
    /\ ks_for_context(kest, 1) = <<3, 3, 3>>

====
